---- MODULE Spec2Model ----
(***************************************************************************)
(* Backend registry, resource resolution and device-session initialization *)
(* of the library: src/feme.c (registry, context creation and destruction, *)
(* error reporting) and the backend initializers of                        *)
(* src/backends/cuda/ceed-cuda.c, src/backends/hip/ceed-hip.cpp and        *)
(* src/backends/occa/registration.cpp.                                     *)
(*                                                                         *)
(* C strings are sequences of one-character strings; the terminating NUL   *)
(* is the character read one past the last element.                        *)
(***************************************************************************)
EXTENDS Integers, Sequences, FiniteSets, TLC

----------------------------------------------------------------------------
\* Bounds of the model.

\* Registrations the environment makes in the main specification.
MaxReg == 3

\* Registrations whose prefix is chosen freely in the capacity specification;
\* the remaining slots are filled with one fixed registration.
FreeSlots == 2

\* Devices the driver knows: ordinals 0 .. NumDevices-1.
NumDevices == 3

----------------------------------------------------------------------------
\* Program constants.

\* sizeof(backends) / sizeof(backends[0])
NumSlots == 32

\* Size of the prefix field of a registry slot (declared in feme-impl.h).
FEME_MAX_RESOURCE_LEN == 1024

\* "const int nrc = 9" of CeedInit_Cuda and of CeedInit_Hip.
CudaNrc == 9
HipNrc == 9

----------------------------------------------------------------------------
\* Strings.

NUL == "\\0"

S_gpu_cuda_ref == <<"/", "g", "p", "u", "/", "c", "u", "d", "a", "/", "r", "e", "f">>
S_gpu_hip_ref == <<"/", "g", "p", "u", "/", "h", "i", "p", "/", "r", "e", "f">>
S_any_occa == <<"/", "*", "/", "o", "c", "c", "a">>
S_gpu_occa == <<"/", "g", "p", "u", "/", "o", "c", "c", "a">>
S_cpu_occa == <<"/", "c", "p", "u", "/", "o", "c", "c", "a">>
R_gpu_cuda_ref_2 == <<"/", "g", "p", "u", "/", "c", "u", "d", "a", "/", "r", "e", "f", "/", "2">>
R_gpu_hip_ref_2 == <<"/", "g", "p", "u", "/", "h", "i", "p", "/", "r", "e", "f", "/", "2">>
R_unknown_thing == <<"/", "u", "n", "k", "n", "o", "w", "n", "/", "t", "h", "i", "n", "g">>
R_gpu_cudaX == <<"/", "g", "p", "u", "/", "c", "u", "d", "a", "X">>
R_gpu_cuda_gen == <<"/", "g", "p", "u", "/", "c", "u", "d", "a", "/", "g", "e", "n">>
R_gpu_cuda_ref_x == <<"/", "g", "p", "u", "/", "c", "u", "d", "a", "/", "r", "e", "f", "/", "x">>
R_gpu_cuda_2 == <<"/", "g", "p", "u", "/", "c", "u", "d", "a", "/", "2">>
R_gpu_cuda_7 == <<"/", "g", "p", "u", "/", "c", "u", "d", "a", "/", "7">>
R_unknown == <<"u", "n", "k", "n", "o", "w", "n">>
R_cpu_occa_not == <<"/", "c", "p", "u", "/", "o", "c", "c", "a", "-", "n", "o", "t">>
K_mode == <<"m", "o", "d", "e">>

\* s[i] of C, i counted from 0; the NUL at i = strlen(s).
CharAt(s, i) == IF i < Len(s) THEN s[i + 1] ELSE NUL

\* The first n characters of s (all of s when it is shorter).
Take(s, n) == SubSeq(s, 1, IF Len(s) < n THEN Len(s) ELSE n)

\* &s[n]: the string that starts at index n of s.
Drop(s, n) == SubSeq(s, n + 1, Len(s))

\* strncpy(dst, src, n) into a zeroed field, read back as a string.
strncpy(src, n) == Take(src, n)

\* strncmp(a, b, n): 0 when the first n characters (up to a NUL) agree.
strncmp(a, b, n) == IF Take(a, n) = Take(b, n) THEN 0 ELSE 1

\* std::string::find(pat) != npos
Find(s, pat) ==
  \E i \in 0..(Len(s) - Len(pat)) : SubSeq(s, i + 1, i + Len(pat)) = pat

DigitChars == <<"0", "1", "2", "3", "4", "5", "6", "7", "8", "9">>

IsDigit(c) == \E d \in 1..10 : DigitChars[d] = c

DigitVal(c) == (CHOOSE d \in 1..10 : DigitChars[d] = c) - 1

IsSpace(c) == c \in {" ", "\t", "\n", "\r", "\f"}

RECURSIVE SkipSpace(_, _)
SkipSpace(s, i) == IF IsSpace(CharAt(s, i)) THEN SkipSpace(s, i + 1) ELSE i

RECURSIVE AtoiDigits(_, _, _)
AtoiDigits(s, i, acc) ==
  IF IsDigit(CharAt(s, i))
  THEN AtoiDigits(s, i + 1, 10 * acc + DigitVal(CharAt(s, i)))
  ELSE acc

\* atoi(s): leading white space, an optional sign, then the decimal digits up to
\* the first other character; 0 when there is no digit.
atoi(s) ==
  LET i == SkipSpace(s, 0)
      c == CharAt(s, i)
  IN IF c = "-" THEN 0 - AtoiDigits(s, i + 1, 0)
     ELSE IF c = "+" THEN AtoiDigits(s, i + 1, 0)
     ELSE AtoiDigits(s, i, 0)

----------------------------------------------------------------------------
\* State.

VARIABLES
  backends,      \* the registry: slots 1 .. num_backends of backends[]
  feme,          \* the application's Context handles
  activeDevice,  \* the process-wide active device of each vendor runtime
  occaModes,     \* the device modes the OCCA build has enabled
  aborted,       \* abort() was called: the process is gone
  nCublas,       \* the handles cublasCreate has made so far
  gpu,           \* the device side of the launches: kernel, output, host view
  call           \* the last library call and what it did

vars == <<backends, feme, activeDevice, occaModes, aborted, nCublas, gpu, call>>

\* The Context handles (Feme *) the application holds; the specifications of
\* the registry create and destroy Contexts through the first.
Handles == {"A", "B"}

RegistryHandles == {"A"}

Devices == 0..(NumDevices - 1)

\* A backend's private data; kind "none" is a null pointer.
\* cublasHandle 0 is the null handle.
NoData == [kind |-> "none", deviceId |-> 0, optblocksize |-> 0,
           cublasHandle |-> 0, mode |-> "", props |-> <<>>]

\* The device side before any launch: no kernel in flight, the output buffer
\* not written, nothing read by the host.
NoGpu == [kernel |-> "idle", written |-> FALSE, synced |-> FALSE, read |-> "none",
          readSynced |-> FALSE]

\* A null Feme handle.
NullCtx == [alloc |-> FALSE, Error |-> "NULL", Destroy |-> "NULL",
            data |-> NoData, ops |-> {}]

\* The static registrations of the three backend files.
AllRegistrations ==
  { [prefix |-> S_gpu_cuda_ref, init |-> "CeedInit_Cuda", priority |-> 40],
    [prefix |-> S_gpu_hip_ref, init |-> "CeedInit_Hip", priority |-> 20],
    [prefix |-> S_any_occa, init |-> "registerBackend", priority |-> 20],
    [prefix |-> S_gpu_occa, init |-> "registerBackend", priority |-> 20],
    [prefix |-> S_cpu_occa, init |-> "registerBackend", priority |-> 20] }

\* The registrations the main specification draws from: one per backend file.
Registrations ==
  { e \in AllRegistrations :
      e.prefix \in {S_gpu_cuda_ref, S_gpu_hip_ref, S_cpu_occa} }

\* What the last call did: the error it raised ("none": no error), whether it
\* returned to its caller, the value it returned, and, for FemeInit, the
\* registry slot it chose, the initializer it invoked, the device ordinal that
\* initializer parsed (-1: none parsed) and the driver and allocator calls made,
\* in order.  handler and ecode: the error handler an error was reported to
\* ("none": no report, "NULL": reported with no Context) and the code reported.
\* out: the handle stored through the call's out-parameter (0: none).  opts:
\* the options handed to the runtime compiler.  args, source: the caller's
\* (name, value) options and kernel source of a compile call.  msg: the parts of
\* the message handed to the error handler.  launch: the grid, block and shared
\* memory arguments of a kernel launch.  priority: the priority argument of
\* a registration call (with init, the initializer it passed).
NoCall == [op |-> "none", h |-> "none", resource |-> <<>>, err |-> "none",
           returned |-> TRUE, ierr |-> 0, matchidx |-> 0, init |-> "NULL",
           deviceID |-> -1, drv |-> <<>>, handler |-> "none", ecode |-> 0,
           out |-> 0, opts |-> <<>>, args |-> <<>>, source |-> "", msg |-> <<>>,
           launch |-> <<>>, priority |-> 0]

----------------------------------------------------------------------------
\* Error reporting (src/feme.c).

\* abort(): the handler never returns.
FemeErrorAbort(ecode) == [aborted |-> TRUE, ret |-> ecode]

FemeErrorReturn(ecode) == [aborted |-> FALSE, ret |-> ecode]

FemeErrorImpl_AlwaysAbort(ctx, ecode) == FemeErrorAbort(ecode)

FemeErrorImpl(ctx, ecode) ==
  IF ctx.alloc
  THEN IF ctx.Error = "FemeErrorReturn" THEN FemeErrorReturn(ecode)
       ELSE FemeErrorAbort(ecode)
  ELSE FemeErrorAbort(ecode)

----------------------------------------------------------------------------
\* Registration (src/feme.c).

\* if (num_backends >= sizeof(backends) / sizeof(backends[0]))
RegistryFull(b) == Len(b) >= NumSlots

\* A store that puts the new entry in front of the others.
StoreBackend_Front(b, prefix, init) ==
  <<[prefix |-> strncpy(prefix, FEME_MAX_RESOURCE_LEN), init |-> init]>> \o b

\* strncpy(backends[num_backends].prefix, prefix, FEME_MAX_RESOURCE_LEN);
\* backends[num_backends].init = init; num_backends++;
StoreBackend(b, prefix, init) ==
  Append(b, [prefix |-> strncpy(prefix, FEME_MAX_RESOURCE_LEN), init |-> init])

\* The priority argument of the registration call of prefix.
RegisteredPriority(prefix) ==
  (CHOOSE e \in AllRegistrations : e.prefix = strncpy(prefix, FEME_MAX_RESOURCE_LEN)).priority

\* A registration that puts an entry of higher priority in front.
FemeRegister_ByPriority(e) ==
  /\ ~aborted
  /\ IF RegistryFull(backends)
     THEN LET r == FemeErrorImpl(NullCtx, 1)
          IN /\ aborted' = r.aborted
             /\ call' = [NoCall EXCEPT !.op = "FemeRegister", !.resource = e.prefix,
                           !.init = e.init, !.priority = e.priority,
                           !.err = "CapacityExceeded", !.returned = ~r.aborted,
                           !.ierr = r.ret, !.handler = "NULL", !.ecode = 1]
             /\ UNCHANGED backends
     ELSE /\ backends' = IF \E i \in 1..Len(backends) :
                                e.priority > RegisteredPriority(backends[i].prefix)
                          THEN StoreBackend_Front(backends, e.prefix, e.init)
                          ELSE StoreBackend(backends, e.prefix, e.init)
          /\ call' = [NoCall EXCEPT !.op = "FemeRegister", !.resource = e.prefix,
                           !.init = e.init, !.priority = e.priority]
          /\ UNCHANGED aborted
  /\ UNCHANGED <<feme, activeDevice, occaModes, nCublas, gpu>>

FemeRegister(e) ==
  /\ ~aborted
  /\ IF RegistryFull(backends)
     THEN LET r == FemeErrorImpl(NullCtx, 1)
          IN /\ aborted' = r.aborted
             /\ call' = [NoCall EXCEPT !.op = "FemeRegister", !.resource = e.prefix,
                           !.init = e.init, !.priority = e.priority,
                           !.err = "CapacityExceeded", !.returned = ~r.aborted,
                           !.ierr = r.ret, !.handler = "NULL", !.ecode = 1]
             /\ UNCHANGED backends
     ELSE /\ backends' = StoreBackend(backends, e.prefix, e.init)
          /\ call' = [NoCall EXCEPT !.op = "FemeRegister", !.resource = e.prefix,
                           !.init = e.init, !.priority = e.priority]
          /\ UNCHANGED aborted
  /\ UNCHANGED <<feme, activeDevice, occaModes, nCublas, gpu>>

----------------------------------------------------------------------------
\* Resolution (src/feme.c, FemeInit lines 68-77).

RECURSIVE CommonLen(_, _, _)
\* for (n = 0; prefix[n] && prefix[n] == resource[n]; n++) {}
CommonLen(prefix, resource, n) ==
  IF CharAt(prefix, n) # NUL /\ CharAt(prefix, n) = CharAt(resource, n)
  THEN CommonLen(prefix, resource, n + 1)
  ELSE n

\* A selection that compares against zero instead of the running maximum.
Better_AnyMatch(n, matchlen) == n > 0

\* A selection that lets a later entry replace an equally long match.
Better_OrEqual(n, matchlen) == n >= matchlen

\* if (n > matchlen)
Better(n, matchlen) == n > matchlen

RECURSIVE MatchLoop(_, _, _, _)
\* The loop over the slots i .. num_backends; m holds matchlen and matchidx
\* (matchidx 0: not yet assigned).
MatchLoop(b, resource, i, m) ==
  IF i > Len(b) THEN m
  ELSE LET n == CommonLen(b[i].prefix, resource, 0)
       IN MatchLoop(b, resource, i + 1,
                    IF Better(n, m.matchlen)
                    THEN [matchlen |-> n, matchidx |-> i]
                    ELSE m)

Match(b, resource) == MatchLoop(b, resource, 1, [matchlen |-> 0, matchidx |-> 0])

\* A test that asks for more than one common character.
NoMatch_OffByOne(m) == m.matchlen <= 1

\* if (!matchlen)
NoMatch(m) == m.matchlen = 0

----------------------------------------------------------------------------
\* Backend initializers.  Each returns the Context as it leaves it, the active
\* devices, the driver calls it made, and the error it raised, if any.

Ok(ctx, active, drv) ==
  [ctx |-> ctx, active |-> active, drv |-> drv, err |-> "none", ierr |-> 0,
   aborted |-> FALSE, deviceID |-> -1, handler |-> "none", ecode |-> 0]

\* CeedError(rep, ecode, ...): the handler of rep decides whether it returns.
Raise(rep, ctx, active, drv, err, ecode) ==
  LET r == FemeErrorImpl(rep, ecode)
  IN [ctx |-> ctx, active |-> active, drv |-> drv, err |-> err, ierr |-> r.ret,
      aborted |-> r.aborted, deviceID |-> -1,
      handler |-> IF rep.alloc THEN rep.Error ELSE "NULL", ecode |-> ecode]

\* cudaGetDeviceProperties / hipGetDeviceProperties of a device the driver knows.
DeviceProp(d) ==
  [maxThreadsPerBlock |-> 256 * (d + 1), major |-> 6 + d, minor |-> d,
   gcnArch |-> 906 + d]

\* A parse that leaves the ordinal unset (-1) when there is no suffix.
ParseDeviceID_Unset(resource, nrc) ==
  LET rlen == Len(resource)
      slash == IF rlen > nrc THEN CharAt(resource, nrc) = "/" ELSE FALSE
  IN IF slash /\ rlen > nrc + 1 THEN atoi(Drop(resource, nrc + 1)) ELSE -1

\* const bool slash = (rlen>nrc) ? (resource[nrc] == '/') : false;
\* const int deviceID = (slash && rlen > nrc + 1) ? atoi(&resource[nrc + 1]) : 0;
ParseDeviceID(resource, nrc) ==
  LET rlen == Len(resource)
      slash == IF rlen > nrc THEN CharAt(resource, nrc) = "/" ELSE FALSE
  IN IF slash /\ rlen > nrc + 1 THEN atoi(Drop(resource, nrc + 1)) ELSE 0

NeedSwitch_Always(currentDeviceID, deviceID) == TRUE

NeedSwitch_Never(currentDeviceID, deviceID) == FALSE

\* if (currentDeviceID != deviceID)
NeedSwitch(currentDeviceID, deviceID) == currentDeviceID # deviceID

\* CeedCudaInit and CeedHipInit are the same code over the two vendor runtimes.
DeviceInit(vendor, ctx, resource, nrc, active, fail) ==
  LET deviceID == ParseDeviceID(resource, nrc)
      switch == NeedSwitch(active[vendor], deviceID)
      known == deviceID \in Devices
      drv1 == <<"GetDevice">>
      drv2 == IF switch THEN <<"GetDevice", "SetDevice">> ELSE drv1
      drv3 == Append(drv2, "GetDeviceProperties")
      act2 == IF switch THEN [active EXCEPT ![vendor] = deviceID] ELSE active
      res ==
        IF fail = "GetDevice"
        THEN Raise(ctx, ctx, active, drv1, "DeviceQueryError", 999)
        ELSE IF switch /\ (fail = "SetDevice" \/ ~known)
        THEN Raise(ctx, ctx, active, drv2, "DeviceSwitchError",
                   IF known THEN 999 ELSE 101)
        ELSE IF fail = "GetDeviceProperties" \/ ~known
        THEN Raise(ctx, ctx, act2, drv3, "DeviceQueryError",
                   IF known THEN 999 ELSE 101)
        ELSE Ok([ctx EXCEPT !.data.deviceId = deviceID,
                            !.data.optblocksize =
                              DeviceProp(deviceID).maxThreadsPerBlock],
                act2, drv3)
  IN [res EXCEPT !.deviceID = deviceID]

CeedCudaInit(ctx, resource, nrc, active, fail) ==
  DeviceInit("cuda", ctx, resource, nrc, active, fail)

CeedHipInit(ctx, resource, nrc, active, fail) ==
  DeviceInit("hip", ctx, resource, nrc, active, fail)

CudaOps ==
  {"GetPreferredMemType", "VectorCreate", "BasisCreateTensorH1", "BasisCreateH1",
   "ElemRestrictionCreate", "ElemRestrictionCreateBlocked", "QFunctionCreate",
   "QFunctionContextCreate", "OperatorCreate", "CompositeOperatorCreate",
   "Destroy"}

HipOps ==
  {"GetPreferredMemType", "VectorCreate", "BasisCreateTensorH1", "BasisCreateH1",
   "ElemRestrictionCreate", "ElemRestrictionCreateBlocked", "QFunctionCreate",
   "OperatorCreate"}

OccaOps == {"GetPreferredMemType", "VectorCreate", "QFunctionCreate"}

\* CeedSetBackendFunction(ceed, "Ceed", ceed, name, f) for every name of ops:
\* the entry is keyed by name; "Destroy" is the Context's Destroy operation.
SetBackendFunctions(ctx, ops, destroy) ==
  [ctx EXCEPT !.ops = ops,
              !.Destroy = IF "Destroy" \in ops THEN destroy ELSE "NULL"]

\* if (strncmp(resource, "/gpu/cuda/ref", nrc))
CudaResourceOk(resource) == strncmp(resource, S_gpu_cuda_ref, CudaNrc) = 0

\* if (strncmp(resource, "/gpu/hip/ref", nrc))
HipResourceOk(resource) == strncmp(resource, S_gpu_hip_ref, HipNrc) = 0

CeedInit_Cuda(resource, ctx, active, fail) ==
  IF ~CudaResourceOk(resource)
  THEN Raise(ctx, ctx, active, <<>>, "BadResource", 1)
  ELSE IF fail = "CeedCalloc"
  THEN Raise(NullCtx, ctx, active, <<>>, "AllocError", 1)
  ELSE LET r == CeedCudaInit([ctx EXCEPT !.data = [NoData EXCEPT !.kind = "cuda"]],
                             resource, CudaNrc, active, fail)
       IN IF r.ierr # 0 \/ r.aborted THEN r
          ELSE [r EXCEPT !.ctx = SetBackendFunctions(r.ctx, CudaOps, "CeedDestroy_Cuda")]

CeedInit_Hip(resource, ctx, active, fail) ==
  IF ~HipResourceOk(resource)
  THEN Raise(ctx, ctx, active, <<>>, "BadResource", 1)
  ELSE IF fail = "CeedCalloc"
  THEN Raise(NullCtx, ctx, active, <<>>, "AllocError", 1)
  ELSE LET r == CeedHipInit([ctx EXCEPT !.data = [NoData EXCEPT !.kind = "hip"]],
                            resource, HipNrc, active, fail)
       IN IF r.ierr # 0 \/ r.aborted THEN r
          ELSE [r EXCEPT !.ctx = SetBackendFunctions(r.ctx, HipOps, "NULL")]

getDefaultDeviceMode_CpuFirst(cpuMode, gpuMode, enabled) ==
  IF cpuMode /\ "OpenMP" \in enabled THEN "OpenMP"
  ELSE IF cpuMode THEN "Serial"
  ELSE IF gpuMode /\ "CUDA" \in enabled THEN "CUDA"
  ELSE IF gpuMode /\ "HIP" \in enabled THEN "HIP"
  ELSE IF gpuMode /\ "Metal" \in enabled THEN "Metal"
  ELSE IF gpuMode /\ "OpenCL" \in enabled THEN "OpenCL"
  ELSE ""

\* ceed::occa::getDefaultDeviceMode; enabled is what ::occa::modeIsEnabled answers.
getDefaultDeviceMode(cpuMode, gpuMode, enabled) ==
  IF gpuMode /\ "CUDA" \in enabled THEN "CUDA"
  ELSE IF gpuMode /\ "HIP" \in enabled THEN "HIP"
  ELSE IF gpuMode /\ "Metal" \in enabled THEN "Metal"
  ELSE IF gpuMode /\ "OpenCL" \in enabled THEN "OpenCL"
  ELSE IF cpuMode /\ "OpenMP" \in enabled THEN "OpenMP"
  ELSE IF cpuMode THEN "Serial"
  ELSE ""

\* ::occa::properties(resourceProps).has("mode")
HasMode(resourceProps) == Find(resourceProps, K_mode)

\* ceed::occa::initCeed
initCeed(resource, ctx, active, enabled, fail) ==
  LET cpuMode == Find(resource, S_cpu_occa)
      gpuMode == Find(resource, S_gpu_occa)
      anyMode == Find(resource, S_any_occa)
      validResource ==
        /\ cpuMode \/ gpuMode \/ anyMode
        /\ Len(resource) > 9 => CharAt(resource, 9) = "/"
      resourceProps ==
        IF validResource /\ Len(resource) > 10 THEN Drop(resource, 10) ELSE <<>>
      defaultMode == getDefaultDeviceMode(cpuMode \/ anyMode, gpuMode \/ anyMode, enabled)
  IN IF ~validResource
     THEN Raise(ctx, ctx, active, <<>>, "BadResource", 1)
     ELSE IF ~HasMode(resourceProps) /\ defaultMode = ""
     THEN Raise(ctx, ctx, active, <<>>, "NoOccaMode", 1)
     ELSE IF fail = "CeedCalloc"
     THEN Raise(NullCtx, ctx, active, <<>>, "AllocError", 1)
     ELSE Ok([ctx EXCEPT !.data =
                [NoData EXCEPT !.kind = "occa",
                               !.props = resourceProps,
                               !.mode = IF HasMode(resourceProps) THEN "props"
                                        ELSE defaultMode]],
             active, <<>>)

\* ceed::occa::registerBackend: initCeed, then registerMethods; an exception of
\* the device construction is caught and reported through the Context.
registerBackend(resource, ctx, active, enabled, fail) ==
  LET r == initCeed(resource, ctx, active, enabled, fail)
  IN IF r.ierr # 0 \/ r.aborted THEN r
     ELSE IF fail = "occa::device"
     THEN Raise(ctx, r.ctx, active, <<>>, "OccaException", 1)
     ELSE [r EXCEPT !.ctx = SetBackendFunctions(r.ctx, OccaOps, "NULL")]

\* backends[matchidx].init(resource, *feme)
CallInit(init, resource, ctx, active, enabled, fail) ==
  IF init = "CeedInit_Cuda" THEN CeedInit_Cuda(resource, ctx, active, fail)
  ELSE IF init = "CeedInit_Hip" THEN CeedInit_Hip(resource, ctx, active, fail)
  ELSE registerBackend(resource, ctx, active, enabled, fail)

----------------------------------------------------------------------------
\* Context creation and destruction (src/feme.c).

\* What FemeInit may be asked for.
Resources ==
  { S_gpu_cuda_ref, R_gpu_cuda_ref_2, R_gpu_cuda_2, R_gpu_cuda_7, R_gpu_cudaX,
    R_gpu_cuda_gen, R_gpu_cuda_ref_x, S_gpu_hip_ref, R_gpu_hip_ref_2,
    S_cpu_occa, R_unknown_thing, R_unknown, <<>> }

\* The step of a call that the environment makes fail ("none": no step fails).
Fails ==
  { "none", "FemeCalloc", "CeedCalloc", "GetDevice", "SetDevice",
    "GetDeviceProperties", "occa::device" }

DestroyFails == { "none", "cublasDestroy" }

\* FemeCalloc(1, feme); (*feme)->Error = FemeErrorAbort;
NewContext == [NullCtx EXCEPT !.alloc = TRUE, !.Error = "FemeErrorAbort"]

\* The caller passes a handle that holds no Context (FemeInit overwrites *feme).
FemeInit(h, resource, fail) ==
  /\ ~aborted
  /\ ~feme[h].alloc
  /\ LET m == Match(backends, resource)
         rec == [NoCall EXCEPT !.op = "FemeInit", !.h = h, !.resource = resource]
     IN IF NoMatch(m)
        THEN LET e == FemeErrorImpl(NullCtx, 1)
             IN /\ aborted' = e.aborted
                /\ call' = [rec EXCEPT !.err = "NoMatchingBackend",
                                       !.returned = ~e.aborted, !.ierr = e.ret,
                                       !.handler = "NULL", !.ecode = 1]
                /\ UNCHANGED <<feme, activeDevice>>
        ELSE IF fail = "FemeCalloc"
        THEN LET e == FemeErrorImpl(NullCtx, 1)
             IN /\ aborted' = e.aborted
                /\ call' = [rec EXCEPT !.err = "AllocError", !.matchidx = m.matchidx,
                                       !.returned = ~e.aborted, !.ierr = e.ret,
                                       !.handler = "NULL", !.ecode = 1]
                /\ UNCHANGED <<feme, activeDevice>>
        ELSE LET init == backends[m.matchidx].init
                 r == CallInit(init, resource, NewContext, activeDevice,
                               occaModes, fail)
             IN /\ feme' = [feme EXCEPT ![h] = r.ctx]
                /\ activeDevice' = r.active
                /\ aborted' = r.aborted
                /\ call' = [rec EXCEPT !.err = r.err, !.matchidx = m.matchidx,
                                       !.init = init, !.drv = r.drv,
                                       !.deviceID = r.deviceID,
                                       !.handler = r.handler, !.ecode = r.ecode,
                                       !.returned = ~r.aborted, !.ierr = r.ierr]
  /\ UNCHANGED <<backends, occaModes, nCublas, gpu>>

\* The Destroy operation the CUDA backend registers.  CeedFree(&data) releases
\* the session data; the Context still points at it.
CeedDestroy_Cuda(ctx, active, fail) ==
  LET drv1 == IF ctx.data.cublasHandle # 0 THEN <<"cublasDestroy">> ELSE <<>>
  IN IF ctx.data.cublasHandle # 0 /\ fail = "cublasDestroy"
     THEN Raise(ctx, ctx, active, drv1, "CublasError", 1)
     ELSE Ok([ctx EXCEPT !.data = [NoData EXCEPT !.kind = "freed"]], active,
             Append(drv1, "free(data)"))

\* A release that leaves the caller's handle as it was.
FemeFree_KeepHandle(handles, h) == handles

\* free(*p); *p = NULL;
FemeFree(handles, h) == [handles EXCEPT ![h] = NullCtx]

FemeDestroy(h, fail) ==
  /\ ~aborted
  /\ LET rec == [NoCall EXCEPT !.op = "FemeDestroy", !.h = h]
     IN IF ~feme[h].alloc
        THEN /\ call' = rec
             /\ UNCHANGED <<feme, aborted>>
        ELSE IF feme[h].Destroy # "NULL"
        THEN LET r == CeedDestroy_Cuda(feme[h], activeDevice, fail)
             IN IF r.ierr # 0 \/ r.aborted
                THEN /\ feme' = [feme EXCEPT ![h] = r.ctx]
                     /\ aborted' = r.aborted
                     /\ call' = [rec EXCEPT !.err = r.err, !.returned = ~r.aborted,
                                            !.ierr = r.ierr, !.drv = r.drv,
                                            !.handler = r.handler,
                                            !.ecode = r.ecode]
                ELSE /\ feme' = FemeFree(feme, h)
                     /\ call' = [rec EXCEPT !.drv = Append(r.drv, "free(feme)")]
                     /\ UNCHANGED aborted
        ELSE /\ feme' = FemeFree(feme, h)
             /\ call' = [rec EXCEPT !.drv = <<"free(feme)">>]
             /\ UNCHANGED aborted
  /\ UNCHANGED <<backends, activeDevice, occaModes, nCublas, gpu>>

----------------------------------------------------------------------------
\* Specifications.

\* The OCCA build considered: OpenMP is the one optional mode enabled.
OccaBuilds == { {"OpenMP"} }

Init ==
  /\ backends = <<>>
  /\ feme = [h \in Handles |-> NullCtx]
  /\ activeDevice = [v \in {"cuda", "hip"} |-> 0]
  /\ occaModes \in OccaBuilds
  /\ aborted = FALSE
  /\ nCublas = 0
  /\ gpu = NoGpu
  /\ call = NoCall

\* The application registers at most MaxReg backends.
Register == \E e \in Registrations : Len(backends) < MaxReg /\ FemeRegister(e)

CreateContext ==
  \E h \in RegistryHandles, resource \in Resources, fail \in Fails :
    FemeInit(h, resource, fail)

DestroyContext ==
  \E h \in RegistryHandles, fail \in DestroyFails : FemeDestroy(h, fail)

Next == Register \/ CreateContext \/ DestroyContext

Spec == Init /\ [][Next]_vars

\* The capacity specification: the registry is filled to its last slot and
\* beyond; past the first FreeSlots entries every call registers "/cpu/occa".
Filler == [prefix |-> S_cpu_occa, init |-> "registerBackend", priority |-> 20]

CapResources == { S_gpu_cuda_ref, S_cpu_occa, R_unknown }

RegisterCap ==
  \E e \in (IF Len(backends) < FreeSlots THEN Registrations ELSE {Filler}) :
    FemeRegister(e)

CreateContextCap ==
  \E h \in RegistryHandles, resource \in CapResources :
    FemeInit(h, resource, "none")

NextCap == RegisterCap \/ CreateContextCap \/ DestroyContext

SpecCap == Init /\ [][NextCap]_vars

\* ---------------------------------------------------------------------------
\* Error handler replacement and the lazily created cuBLAS handle
\* ---------------------------------------------------------------------------

\* The application cannot make more than MaxCublas handles in one run.
MaxCublas == 2

ErrorHandlers == {"FemeErrorAbort", "FemeErrorReturn"}

\* The application replaces the error handler of a live Context: the Error
\* field that FemeErrorImpl calls through.
SetErrorHandler(h, handler) ==
  /\ ~aborted
  /\ feme[h].alloc
  /\ feme[h].Error # handler
  /\ feme' = [feme EXCEPT ![h].Error = handler]
  /\ call' = [NoCall EXCEPT !.op = "SetErrorHandler", !.h = h]
  /\ UNCHANGED <<backends, activeDevice, occaModes, aborted, nCublas, gpu>>

NeedCublasCreate_Always(data) == TRUE

\* if (!data->cublasHandle)
NeedCublasCreate(data) == data.cublasHandle = 0

\* CeedCudaGetCublasHandle(ceed, handle) on a Context of the CUDA backend.
\* cublasCreate hands out a handle no earlier call has returned.
CeedCudaGetCublasHandle(h, fail) ==
  LET ctx == feme[h]
      rec == [NoCall EXCEPT !.op = "CeedCudaGetCublasHandle", !.h = h]
  IN /\ ~aborted
     /\ ctx.alloc
     /\ ctx.data.kind = "cuda"
     /\ NeedCublasCreate(ctx.data) => nCublas < MaxCublas
     /\ IF NeedCublasCreate(ctx.data)
        THEN IF fail = "cublasCreate"
             THEN LET r == Raise(ctx, ctx, activeDevice, <<"cublasCreate">>,
                                 "CublasError", 1)
                  IN /\ aborted' = r.aborted
                     /\ call' = [rec EXCEPT !.err = r.err, !.drv = r.drv,
                                            !.returned = ~r.aborted,
                                            !.ierr = r.ierr,
                                            !.handler = r.handler,
                                            !.ecode = r.ecode]
                     /\ UNCHANGED <<feme, nCublas>>
             ELSE /\ nCublas' = nCublas + 1
                  /\ feme' = [feme EXCEPT ![h].data.cublasHandle = nCublas + 1]
                  /\ call' = [rec EXCEPT !.drv = <<"cublasCreate">>,
                                         !.out = nCublas + 1]
                  /\ UNCHANGED aborted
        ELSE /\ call' = [rec EXCEPT !.out = ctx.data.cublasHandle]
             /\ UNCHANGED <<feme, nCublas, aborted>>
     /\ UNCHANGED <<backends, activeDevice, occaModes, gpu>>

\* The registry once every backend file has registered its first prefix.
DevRegistry ==
  StoreBackend(StoreBackend(StoreBackend(<<>>,
    S_gpu_cuda_ref, "CeedInit_Cuda"),
    S_gpu_hip_ref, "CeedInit_Hip"),
    S_cpu_occa, "registerBackend")

DevResources == { S_gpu_cuda_ref, R_gpu_cuda_2, S_gpu_hip_ref, <<>> }

DevFails == { "none", "GetDevice", "FemeCalloc" }

CublasFails == { "none", "cublasCreate" }

InitDev ==
  /\ backends = DevRegistry
  /\ feme = [h \in Handles |-> NullCtx]
  /\ activeDevice = [v \in {"cuda", "hip"} |-> 0]
  /\ occaModes \in OccaBuilds
  /\ aborted = FALSE
  /\ nCublas = 0
  /\ gpu = NoGpu
  /\ call = NoCall

CreateContextDev ==
  \E h \in Handles, resource \in DevResources, fail \in DevFails :
    FemeInit(h, resource, fail)

InstallHandler ==
  \E h \in Handles, handler \in ErrorHandlers : SetErrorHandler(h, handler)

GetCublasHandle ==
  \E h \in Handles, fail \in CublasFails : CeedCudaGetCublasHandle(h, fail)

DestroyContextDev ==
  \E h \in Handles, fail \in DestroyFails : FemeDestroy(h, fail)

NextDev ==
  CreateContextDev \/ InstallHandler \/ GetCublasHandle \/ DestroyContextDev

SpecDev == InitDev /\ [][NextDev]_vars

\* ---------------------------------------------------------------------------
\* Runtime compilation (CeedCompileCuda, CeedCompileHip)
\* ---------------------------------------------------------------------------

\* A compile call passes at most MaxOpts caller options.
MaxOpts == 2

\* const int optslen = 32;
OptsLen == 32

\* const int optsextra = 4;
OptsExtra == 4

Opt_CeedScalar == <<"-", "D", "C", "e", "e", "d", "S", "c", "a", "l", "a", "r", "=", "d", "o", "u", "b", "l", "e">>
Opt_CeedInt == <<"-", "D", "C", "e", "e", "d", "I", "n", "t", "=", "i", "n", "t">>
Opt_default_device == <<"-", "d", "e", "f", "a", "u", "l", "t", "-", "d", "e", "v", "i", "c", "e">>
Arch_compute == <<"-", "a", "r", "c", "h", "=", "c", "o", "m", "p", "u", "t", "e", "_">>
Arch_gfx == <<"-", "-", "g", "p", "u", "-", "a", "r", "c", "h", "i", "t", "e", "c", "t", "u", "r", "e", "=", "g", "f", "x">>
N_Q1D == <<"Q", "1", "D">>
N_NCOMP == <<"N", "C", "O", "M", "P">>
N_BASIS_24 == <<"B", "A", "S", "I", "S", "_", "I", "N", "T", "E", "R", "P", "_", "S", "C", "R", "A", "T", "C", "H", "_", "L", "E", "N">>
N_BASIS_34 == <<"B", "A", "S", "I", "S", "_", "I", "N", "T", "E", "R", "P", "_", "S", "C", "R", "A", "T", "C", "H", "_", "S", "I", "Z", "E", "_", "P", "E", "R", "_", "E", "L", "E", "M">>

\* The decimal digits of n >= 0, most significant first.
RECURSIVE UDecimal(_)
UDecimal(n) ==
  IF n < 10 THEN <<DigitChars[n + 1]>>
  ELSE Append(UDecimal(n \div 10), DigitChars[(n % 10) + 1])

\* printf's %d, and std::to_string of an int.
FormatInt(v) == IF v < 0 THEN <<"-">> \o UDecimal(0 - v) ELSE UDecimal(v)

snprintf_NoTerminator(size, text) == Take(text, size)

\* snprintf(buf, size, ...) of a text: at most size - 1 characters are stored.
snprintf(size, text) == Take(text, size - 1)

\* snprintf(&buf[i][0], optslen, "-D%s=%d", name, val)
CallerOption(arg) ==
  snprintf(OptsLen, <<"-", "D">> \o arg.name \o <<"=">> \o FormatInt(arg.val))

\* snprintf(buff, optslen, "-arch=compute_%d%d", prop.major, prop.minor), and
\* "--gpu-architecture=" + "gfx" + std::to_string(prop.gcnArch) through snprintf.
ArchOption(vendor, prop) ==
  IF vendor = "cuda"
  THEN snprintf(OptsLen, Arch_compute \o FormatInt(prop.major) \o FormatInt(prop.minor))
  ELSE snprintf(OptsLen, Arch_gfx \o FormatInt(prop.gcnArch))

\* opts[numopts] .. opts[numopts + 3]
StandardOptions(vendor, prop) ==
  <<Opt_CeedScalar, Opt_CeedInt, Opt_default_device, ArchOption(vendor, prop)>>

CompileOptions_StandardFirst(vendor, args, prop) ==
  StandardOptions(vendor, prop) \o [i \in 1..Len(args) |-> CallerOption(args[i])]

\* The opts array handed to nvrtcCompileProgram / hiprtcCompileProgram with the
\* count numopts + optsextra.
CompileOptions(vendor, args, prop) ==
  [i \in 1..Len(args) |-> CallerOption(args[i])] \o StandardOptions(vendor, prop)

\* (int)result of a failed compilation: NVRTC_ERROR_COMPILATION and
\* HIPRTC_ERROR_COMPILATION.
CompilationFailed == 6

SuccessSteps_FreeBeforeLoad ==
  <<"GetCodeSize", "malloc(ptx)", "GetCode", "DestroyProgram", "free(ptx)",
    "ModuleLoadData">>

\* The calls made after a successful compilation, in program order:
\* nvrtcGetPTXSize, CeedMalloc(ptxsize, &ptx), nvrtcGetPTX,
\* nvrtcDestroyProgram, cuModuleLoadData, CeedFree(&ptx).
SuccessSteps ==
  <<"GetCodeSize", "malloc(ptx)", "GetCode", "DestroyProgram", "ModuleLoadData",
    "free(ptx)">>

\* CeedCompileCuda / CeedCompileHip: the same steps over the two vendor
\* runtime compilers.  res is how the call ends, opts what the compiler was
\* given, module the module loaded (0: none), msg what CeedError was given.
Compile(vendor, ctx, source, args, active, fail) ==
  LET prop == DeviceProp(ctx.data.deviceId)
      opts == CompileOptions(vendor, args, prop)
      t1 == <<"Free(0)", "CreateProgram">>
      t2 == Append(t1, "GetDeviceProperties")
      t3 == Append(t2, "CompileProgram")
      l1 == Append(t3, "GetProgramLogSize")
      l2 == Append(l1, "malloc(log)")
      l3 == Append(l2, "GetProgramLog")
      p1 == t3 \o SubSeq(SuccessSteps, 1, 1)
      p2 == t3 \o SubSeq(SuccessSteps, 1, 2)
      p3 == t3 \o SubSeq(SuccessSteps, 1, 3)
      p4 == t3 \o SubSeq(SuccessSteps, 1, 4)
      p5 == t3 \o SubSeq(SuccessSteps, 1, 5)
      p6 == t3 \o SuccessSteps
      End(res, o, m, msg) == [res |-> res, opts |-> o, module |-> m, msg |-> msg]
      Fail(rep, drv, err, o) ==
        End(Raise(rep, ctx, active, drv, err, 999), o, 0, <<"ErrorName">>)
  IN IF fail = "CreateProgram" THEN Fail(ctx, t1, "JitError", <<>>)
     ELSE IF fail = "GetDeviceProperties"
     THEN Fail(ctx, t2, "DeviceQueryError", <<>>)
     ELSE IF source = "invalid"
     THEN IF fail = "GetProgramLogSize" THEN Fail(ctx, l1, "JitError", opts)
          ELSE IF fail = "malloc"
          THEN End(Raise(NullCtx, ctx, active, l2, "AllocError", 1), opts, 0,
                   <<"malloc failed">>)
          ELSE IF fail = "GetProgramLog" THEN Fail(ctx, l3, "JitError", opts)
          ELSE End(Raise(ctx, ctx, active, l3, "CompileError", CompilationFailed),
                   opts, 0, <<"GetErrorString(result)", "log">>)
     ELSE IF fail = "GetCodeSize" THEN Fail(ctx, p1, "JitError", opts)
     ELSE IF fail = "malloc"
     THEN End(Raise(NullCtx, ctx, active, p2, "AllocError", 1), opts, 0,
              <<"malloc failed">>)
     ELSE IF fail = "GetCode" THEN Fail(ctx, p3, "JitError", opts)
     ELSE IF fail = "DestroyProgram" THEN Fail(ctx, p4, "JitError", opts)
     ELSE IF fail = "ModuleLoadData" THEN Fail(ctx, p5, "ModuleLoadError", opts)
     ELSE End(Ok(ctx, active, p6), opts, 1, <<>>)

CeedCompileCuda(ctx, source, args, active, fail) ==
  Compile("cuda", ctx, source, args, active, fail)

CeedCompileHip(ctx, source, args, active, fail) ==
  Compile("hip", ctx, source, args, active, fail)

\* A compile call on the live GPU Context h.
CeedCompile(h, source, args, fail) ==
  LET ctx == feme[h]
      cuda == ctx.data.kind = "cuda"
      c == IF cuda THEN CeedCompileCuda(ctx, source, args, activeDevice, fail)
           ELSE CeedCompileHip(ctx, source, args, activeDevice, fail)
  IN /\ ~aborted
     /\ ctx.alloc
     /\ ctx.data.kind \in {"cuda", "hip"}
     /\ aborted' = c.res.aborted
     /\ call' = [NoCall EXCEPT
                   !.op = IF cuda THEN "CeedCompileCuda" ELSE "CeedCompileHip",
                   !.h = h, !.source = source, !.args = args,
                   !.err = c.res.err, !.returned = ~c.res.aborted,
                   !.ierr = c.res.ierr, !.drv = c.res.drv,
                   !.handler = c.res.handler, !.ecode = c.res.ecode,
                   !.opts = c.opts, !.out = c.module, !.msg = c.msg]
     /\ UNCHANGED <<backends, feme, activeDevice, occaModes, nCublas, gpu>>

\* The caller options the compile calls draw from: two that fit the buffer
\* and one that overflows it inside the value.
OptionPairs ==
  { [name |-> N_Q1D, val |-> 16], [name |-> N_NCOMP, val |-> -3],
    [name |-> N_BASIS_24, val |-> 1234], [name |-> N_BASIS_24, val |-> 1234567] }

\* The compile calls with a failing step pass one option, which overflows the
\* buffer inside the name.
LongNameOption == [name |-> N_BASIS_34, val |-> 1]

OptionLists ==
  UNION { [1..n -> OptionPairs] : n \in 0..MaxOpts }

Sources == { "valid", "invalid" }

JitFails ==
  { "CreateProgram", "GetDeviceProperties", "GetProgramLogSize", "malloc",
    "GetProgramLog", "GetCodeSize", "GetCode", "DestroyProgram",
    "ModuleLoadData" }

JitResources == { R_gpu_cuda_2, S_gpu_hip_ref }

CreateContextJit ==
  \E resource \in JitResources :
    \E h \in RegistryHandles : FemeInit(h, resource, "none")

InstallHandlerJit ==
  \E h \in RegistryHandles, handler \in ErrorHandlers : SetErrorHandler(h, handler)

CompileKernel ==
  \E h \in RegistryHandles, source \in Sources, args \in OptionLists :
    CeedCompile(h, source, args, "none")

CompileKernelFailing ==
  \E h \in RegistryHandles, source \in Sources, fail \in JitFails :
    CeedCompile(h, source, <<LongNameOption>>, fail)

NextJit ==
  \/ CreateContextJit
  \/ InstallHandlerJit
  \/ CompileKernel
  \/ CompileKernelFailing

SpecJit == InitDev /\ [][NextJit]_vars

\* ---------------------------------------------------------------------------
\* Kernel launch (CeedRunKernel*Cuda, CeedRunKernel*Hip)
\* ---------------------------------------------------------------------------

LaunchKernel_Blocking(g) ==
  [NoGpu EXCEPT !.kernel = "done", !.written = TRUE]

\* cuLaunchKernel / hipModuleLaunchKernel on the null stream: the kernel is
\* queued and the call returns; nothing of its output is written yet.
LaunchKernel(g) == [NoGpu EXCEPT !.kernel = "running"]

\* The arguments the three launch functions hand to the driver: the grid is
\* gridSize x 1 x 1; the block is blockSize x 1 x 1 or the three given sizes;
\* shared memory is 0 unless given.
LaunchArgs(variant, gridSize, block, sharedMemSize) ==
  [grid |-> <<gridSize, 1, 1>>,
   block |-> IF variant = "RunKernel" THEN <<block[1], 1, 1>> ELSE block,
   shared |-> IF variant = "RunKernelDimShared" THEN sharedMemSize ELSE 0]

\* The name of the launch function of a variant and vendor.
RunKernelName(variant, cuda) ==
  IF variant = "RunKernel"
  THEN IF cuda THEN "CeedRunKernelCuda" ELSE "CeedRunKernelHip"
  ELSE IF variant = "RunKernelDim"
  THEN IF cuda THEN "CeedRunKernelDimCuda" ELSE "CeedRunKernelDimHip"
  ELSE IF cuda THEN "CeedRunKernelDimSharedCuda" ELSE "CeedRunKernelDimSharedHip"

\* CeedRunKernelCuda, CeedRunKernelDimCuda, CeedRunKernelDimSharedCuda and the
\* three HIP functions, on the live GPU Context h.
CeedRunKernel(h, variant, gridSize, block, sharedMemSize, fail) ==
  LET ctx == feme[h]
      rec == [NoCall EXCEPT
                !.op = RunKernelName(variant, ctx.data.kind = "cuda"), !.h = h,
                !.drv = <<"LaunchKernel">>,
                !.launch = <<LaunchArgs(variant, gridSize, block, sharedMemSize)>>]
  IN /\ ~aborted
     /\ ctx.alloc
     /\ ctx.data.kind \in {"cuda", "hip"}
     /\ gpu.kernel # "running"
     /\ IF fail = "LaunchKernel"
        THEN LET r == Raise(ctx, ctx, activeDevice, rec.drv, "LaunchError", 999)
             IN /\ aborted' = r.aborted
                /\ call' = [rec EXCEPT !.err = r.err, !.returned = ~r.aborted,
                                       !.ierr = r.ierr, !.handler = r.handler,
                                       !.ecode = r.ecode]
                /\ UNCHANGED gpu
        ELSE /\ gpu' = LaunchKernel(gpu)
             /\ call' = rec
             /\ UNCHANGED aborted
     /\ UNCHANGED <<backends, feme, activeDevice, occaModes, nCublas>>

\* The device finishes the queued kernel and its output is in device memory.
KernelComplete ==
  /\ ~aborted
  /\ gpu.kernel = "running"
  /\ gpu' = [gpu EXCEPT !.kernel = "done", !.written = TRUE]
  /\ UNCHANGED <<backends, feme, activeDevice, occaModes, aborted, nCublas, call>>

\* The application's explicit synchronization: it returns once the device has
\* no kernel running.
Synchronize ==
  /\ ~aborted
  /\ gpu.kernel = "done"
  /\ ~gpu.synced
  /\ gpu' = [gpu EXCEPT !.synced = TRUE]
  /\ call' = [NoCall EXCEPT !.op = "Synchronize"]
  /\ UNCHANGED <<backends, feme, activeDevice, occaModes, aborted, nCublas>>

\* The host reads the kernel's output buffer: it sees the kernel's writes when
\* they have been made.  readSynced: a synchronization came before the read.
HostRead ==
  /\ ~aborted
  /\ gpu.kernel # "idle"
  /\ gpu.read = "none"
  /\ gpu' = [gpu EXCEPT !.read = IF gpu.written THEN "fresh" ELSE "stale",
                        !.readSynced = gpu.synced]
  /\ call' = [NoCall EXCEPT !.op = "HostRead"]
  /\ UNCHANGED <<backends, feme, activeDevice, occaModes, aborted, nCublas>>

RunVariants == { "RunKernel", "RunKernelDim", "RunKernelDimShared" }

GridSizes == { 1, 2 }

BlockShapes == { <<32, 1, 1>>, <<8, 8, 2>> }

LaunchFails == { "none", "LaunchKernel" }

SharedBytes == 64

RunKernel ==
  \E h \in RegistryHandles, variant \in RunVariants, gridSize \in GridSizes,
     block \in BlockShapes, fail \in LaunchFails :
    CeedRunKernel(h, variant, gridSize, block, SharedBytes, fail)

NextLaunch ==
  \/ CreateContextJit
  \/ RunKernel
  \/ KernelComplete
  \/ Synchronize
  \/ HostRead

SpecLaunch == InitDev /\ [][NextLaunch]_vars

\* ---------------------------------------------------------------------------
\* The OCCA backend: its three registrations, over every build of OCCA
\* ---------------------------------------------------------------------------

R_cpu_occa_slash == <<"/", "c", "p", "u", "/", "o", "c", "c", "a", "/">>
R_any_occa_slash == <<"/", "*", "/", "o", "c", "c", "a", "/">>
R_any_occa_no == <<"/", "*", "/", "o", "c", "c", "a", "-", "n">>
R_any_occa_blob == <<"/", "*", "/", "o", "c", "c", "a", "/", "{", "m", "o", "d", "e", ":", " ", "C", "U", "D", "A", ",", " ", "d", "e", "v", "i", "c", "e", "_", "i", "d", ":", " ", "0", "}">>
R_gpu_occa_blob == <<"/", "g", "p", "u", "/", "o", "c", "c", "a", "/", "{", "m", "o", "d", "e", ":", " ", "C", "U", "D", "A", ",", " ", "d", "e", "v", "i", "c", "e", "_", "i", "d", ":", " ", "0", "}">>
R_cpu_occa_blob == <<"/", "c", "p", "u", "/", "o", "c", "c", "a", "/", "{", "d", "e", "v", "i", "c", "e", "_", "i", "d", ":", " ", "0", "}">>

\* CeedRegister("/*/occa", ...); CeedRegister("/gpu/occa", ...);
\* CeedRegister("/cpu/occa", ...);
OccaRegistry ==
  StoreBackend(StoreBackend(StoreBackend(<<>>,
    S_any_occa, "registerBackend"),
    S_gpu_occa, "registerBackend"),
    S_cpu_occa, "registerBackend")

\* The modes ::occa::modeIsEnabled may answer for (Serial is always there).
OccaModeNames == { "CUDA", "HIP", "Metal", "OpenCL", "OpenMP" }

OccaResources ==
  { S_cpu_occa, S_gpu_occa, S_any_occa, R_cpu_occa_slash, R_any_occa_slash,
    R_cpu_occa_not, R_any_occa_no, R_any_occa_blob, R_gpu_occa_blob,
    R_cpu_occa_blob }

OccaFails == { "none", "CeedCalloc", "occa::device" }

InitOcca ==
  /\ backends = OccaRegistry
  /\ feme = [h \in Handles |-> NullCtx]
  /\ activeDevice = [v \in {"cuda", "hip"} |-> 0]
  /\ occaModes \in SUBSET OccaModeNames
  /\ aborted = FALSE
  /\ nCublas = 0
  /\ gpu = NoGpu
  /\ call = NoCall

CreateContextOcca ==
  \E h \in RegistryHandles, resource \in OccaResources, fail \in OccaFails :
    FemeInit(h, resource, fail)

NextOcca == CreateContextOcca \/ DestroyContext

SpecOcca == InitOcca /\ [][NextOcca]_vars

\* ---------------------------------------------------------------------------
\* Two Contexts on different devices of one runtime
\* ---------------------------------------------------------------------------

ShareResources == { S_gpu_cuda_ref, R_gpu_cuda_2 }

CreateContextShare ==
  \E h \in Handles, resource \in ShareResources : FemeInit(h, resource, "none")

CompileShare ==
  \E h \in Handles : CeedCompile(h, "valid", <<>>, "none")

RunKernelShare ==
  \E h \in Handles :
    CeedRunKernel(h, "RunKernel", 1, <<32, 1, 1>>, 0, "none")

NextShare ==
  \/ CreateContextShare
  \/ GetCublasHandle
  \/ CompileShare
  \/ RunKernelShare
  \/ KernelComplete

SpecShare == InitDev /\ [][NextShare]_vars

----------------------------------------------------------------------------
\* Vocabulary of the properties.

\* The length of the longest common leading substring of two strings.
SharedLen(p, r) ==
  LET lim == IF Len(p) < Len(r) THEN Len(p) ELSE Len(r)
  IN CHOOSE n \in 0..lim :
       /\ SubSeq(p, 1, n) = SubSeq(r, 1, n)
       /\ n < lim => p[n + 1] # r[n + 1]

\* s begins with all of p.
BeginsWith(s, p) == Len(s) >= Len(p) /\ SubSeq(s, 1, Len(p)) = p

\* The prefixes held by the registry, as a set.
RegisteredPrefixes == { backends[i].prefix : i \in 1..Len(backends) }

\* The last call was FemeInit and it invoked a backend initializer.
InitInvoked == call.op = "FemeInit" /\ call.init # "NULL"

\* The last call was FemeInit and it invoked the initializer of a GPU backend.
GpuInitInvoked == InitInvoked /\ call.init \in {"CeedInit_Cuda", "CeedInit_Hip"}

\* The prefix a GPU initializer registered, and the vendor runtime it drives.
PrefixOf(init) == IF init = "CeedInit_Cuda" THEN S_gpu_cuda_ref ELSE S_gpu_hip_ref

VendorOf(init) == IF init = "CeedInit_Cuda" THEN "cuda" ELSE "hip"

\* s is "/" followed by one or more decimal digits.
IsOrdinalSuffix(s) ==
  /\ Len(s) >= 2
  /\ s[1] = "/"
  /\ \A i \in 2..Len(s) : IsDigit(s[i])

----------------------------------------------------------------------------
\* C1: with "/gpu/cuda/ref", "/gpu/hip/ref" and "/cpu/occa" registered, in any
\* order, FemeInit of "/unknown/thing" fails with NoMatchingBackend: it invokes
\* no backend initializer and creates no Context.
C1_UnknownResourceHasNoBackend ==
  ( /\ call.op = "FemeInit"
    /\ call.resource = R_unknown_thing
    /\ RegisteredPrefixes = {S_gpu_cuda_ref, S_gpu_hip_ref, S_cpu_occa} )
  => ( /\ call.err = "NoMatchingBackend"
       /\ call.init = "NULL"
       /\ \A h \in Handles : ~feme[h].alloc )

\* C2: a Context created by a GPU backend from its registered prefix followed
\* by "/2" records device ordinal 2 in its session and makes 2 the active device.
C2_OrdinalSuffixSelectsDevice ==
  ( /\ GpuInitInvoked
    /\ call.resource = PrefixOf(call.init) \o <<"/", "2">>
    /\ call.err = "none" )
  => ( /\ call.deviceID = 2
       /\ feme[call.h].data.deviceId = 2
       /\ activeDevice[VendorOf(call.init)] = 2 )

\* C3: when FemeInit invokes an initializer, it is the initializer of a registry
\* entry whose common leading substring with the resource is as long as that of
\* any registered entry.
C3_SelectedMatchIsMaximal ==
  InitInvoked =>
    /\ call.matchidx \in 1..Len(backends)
    /\ call.init = backends[call.matchidx].init
    /\ \A j \in 1..Len(backends) :
         SharedLen(backends[j].prefix, call.resource)
           <= SharedLen(backends[call.matchidx].prefix, call.resource)

\* C3 witness: an initializer was invoked for an entry that is not the first
\* registered and that matches strictly longer than an earlier entry.
C3_Witness ==
  /\ InitInvoked
  /\ call.matchidx > 1
  /\ SharedLen(backends[1].prefix, call.resource)
       < SharedLen(backends[call.matchidx].prefix, call.resource)

\* C4: among the entries that share the longest common leading substring with
\* the resource, FemeInit selects the one registered earliest.
C4_TieGoesToEarliest ==
  (call.op = "FemeInit" /\ call.matchidx # 0) =>
    \A j \in 1..Len(backends) :
      ( SharedLen(backends[j].prefix, call.resource)
          = SharedLen(backends[call.matchidx].prefix, call.resource) )
      => call.matchidx <= j

\* C4 witness: a later entry with another prefix ties with the selected one.
C4_Witness ==
  /\ InitInvoked
  /\ \E j \in 1..Len(backends) :
       /\ j > call.matchidx
       /\ backends[j].prefix # backends[call.matchidx].prefix
       /\ SharedLen(backends[j].prefix, call.resource)
            = SharedLen(backends[call.matchidx].prefix, call.resource)

\* No registered prefix has the first character of the resource.
NoPrefixSharesFirstChar(b, resource) ==
  \A i \in 1..Len(b) :
    \/ b[i].prefix = <<>>
    \/ resource = <<>>
    \/ b[i].prefix[1] # resource[1]

\* C5: FemeInit raises NoMatchingBackend exactly when no registered prefix
\* shares its first character with the resource (an empty registry included);
\* that call allocates no Context, invokes no initializer and leaves the
\* registry as it was.
C5_NoMatchExactlyWhenNoSharedChar ==
  [][ call'.op = "FemeInit" =>
        /\ (call'.err = "NoMatchingBackend")
             <=> NoPrefixSharesFirstChar(backends, call'.resource)
        /\ (call'.err = "NoMatchingBackend") =>
             /\ backends' = backends
             /\ feme' = feme
             /\ activeDevice' = activeDevice
             /\ call'.init = "NULL"
             /\ call'.drv = <<>> ]_vars

\* C5 witness: NoMatchingBackend raised against a registry that is not empty.
C5_Witness ==
  /\ call.op = "FemeInit"
  /\ call.err = "NoMatchingBackend"
  /\ Len(backends) = MaxReg

\* C6: the first NumSlots FemeRegister calls succeed; each later call fails with
\* CapacityExceeded, returns an error to its caller and leaves the registry as
\* it was, with the process still running so that the entries stay resolvable.
C6_OverflowReturnsCapacityExceeded ==
  /\ Len(backends) <= NumSlots
  /\ (call.op = "FemeRegister" /\ call.err = "none") => Len(backends) >= 1
  /\ (call.op = "FemeRegister" /\ call.err # "none") =>
       /\ call.err = "CapacityExceeded"
       /\ Len(backends) = NumSlots
       /\ call.returned
       /\ call.ierr # 0
       /\ ~aborted

\* C7: the registry is append-only: no step lowers the entry count or changes
\* the position, prefix or initializer of an entry, and FemeInit and
\* FemeDestroy leave the registry unchanged.
C7_RegistryAppendOnly ==
  [][ /\ Len(backends') >= Len(backends)
      /\ \A i \in 1..Len(backends) : backends'[i] = backends[i]
      /\ call'.op \in {"FemeInit", "FemeDestroy"} => backends' = backends ]_vars

\* C7 witness: a full sequence of registrations, then a Context created on
\* device 2 and destroyed again.
C7_Witness ==
  /\ Len(backends) = MaxReg
  /\ backends[1].prefix # backends[2].prefix
  /\ call.op = "FemeDestroy"
  /\ activeDevice["cuda"] = 2
  /\ ~feme["A"].alloc

\* C8: a GPU initializer invoked with a resource that does not begin with the
\* full prefix its backend registered fails with BadResource before it
\* allocates session data or makes a driver call.
C8_GpuInitRejectsForeignResource ==
  (GpuInitInvoked /\ ~BeginsWith(call.resource, PrefixOf(call.init)))
  => ( /\ call.err = "BadResource"
       /\ feme[call.h].data.kind = "none"
       /\ call.drv = <<>> )

\* C9: a GPU initializer whose resource continues after the registered prefix
\* with anything but "/" and decimal digits fails with BadResource.
C9_MalformedSuffixIsBadResource ==
  ( /\ GpuInitInvoked
    /\ BeginsWith(call.resource, PrefixOf(call.init))
    /\ Len(call.resource) > Len(PrefixOf(call.init))
    /\ ~IsOrdinalSuffix(Drop(call.resource, Len(PrefixOf(call.init)))) )
  => call.err = "BadResource"

\* C10: a GPU initializer given exactly its registered prefix selects device
\* ordinal 0: it parses ordinal 0 whenever it reaches the device setup, and on
\* success the session records 0 and 0 is the active device.
C10_NoSuffixSelectsDeviceZero ==
  (GpuInitInvoked /\ call.resource = PrefixOf(call.init)) =>
    /\ call.err \notin {"AllocError", "BadResource"} => call.deviceID = 0
    /\ call.err = "none" =>
         /\ feme[call.h].data.deviceId = 0
         /\ activeDevice[VendorOf(call.init)] = 0

\* C10 witness: "/gpu/cuda/ref" created a Context on device 0, switching the
\* active device back from another one.
C10_Witness ==
  /\ GpuInitInvoked
  /\ call.resource = S_gpu_cuda_ref
  /\ call.err = "none"
  /\ feme[call.h].data.deviceId = 0
  /\ call.drv = <<"GetDevice", "SetDevice", "GetDeviceProperties">>

\* ---------------------------------------------------------------------------
\* Dispatch table and destruction
\* ---------------------------------------------------------------------------

\* The operation names every backend is required to provide.
RequiredOps ==
  {"GetPreferredMemType", "VectorCreate", "BasisCreateTensorH1", "BasisCreateH1",
   "ElemRestrictionCreate", "ElemRestrictionCreateBlocked", "QFunctionCreate",
   "QFunctionContextCreate", "OperatorCreate", "CompositeOperatorCreate",
   "Destroy"}

\* The last call was a FemeInit whose backend initializer returned success.
InitSucceeded ==
  /\ InitInvoked
  /\ call.err = "none"
  /\ call.returned
  /\ call.ierr = 0

\* a comes before b in the trace seq.
Before(seq, a, b) ==
  \E i, j \in 1..Len(seq) : i < j /\ seq[i] = a /\ seq[j] = b

\* a occurs in the trace seq.
Occurs(seq, a) == \E i \in 1..Len(seq) : seq[i] = a

\* C11: after the initializer of any registered backend (CUDA, HIP, OCCA)
\* returns success, the Context's dispatch table holds an entry for every
\* required operation name.
C11_InitializerRegistersRequiredOps ==
  InitSucceeded => RequiredOps \subseteq feme[call.h].ops

\* C12: destroying a Context whose dispatch table has no Destroy entry fails
\* with UnsupportedOperation and changes nothing.
C12_UnregisteredDestroyIsUnsupported ==
  [][ ( /\ call'.op = "FemeDestroy"
        /\ feme[call'.h].alloc
        /\ "Destroy" \notin feme[call'.h].ops )
      => /\ call'.err = "UnsupportedOperation"
         /\ feme' = feme ]_vars

\* C13: a successful destroy of a Context made by a backend initializer
\* releases the backend's session data, and the lazily created handle when
\* there is one, before the Context itself is freed.
C13_DestroyReleasesSessionBeforeContext ==
  [][ ( /\ call'.op = "FemeDestroy"
        /\ feme[call'.h].alloc
        /\ feme[call'.h].data.kind \in {"cuda", "hip", "occa"}
        /\ call'.err = "none"
        /\ call'.returned )
      => /\ Before(call'.drv, "free(data)", "free(feme)")
         /\ feme[call'.h].data.cublasHandle # 0
              => Before(call'.drv, "cublasDestroy", "free(feme)")
         /\ ~feme'[call'.h].alloc ]_vars

\* C14: over any sequence of CeedCudaGetCublasHandle calls on a live Context
\* the cuBLAS handle is created at most once: a call creates a handle only
\* when the Context has none, every successful call returns the Context's
\* handle, no other step changes the handle of a live Context, and the backend
\* Destroy destroys the handle exactly when one had been created.
C14_CublasHandleCreatedOnce ==
  [][ /\ ( call'.op = "CeedCudaGetCublasHandle" /\ call'.err = "none" )
          => LET old == feme[call'.h].data.cublasHandle
                 new == feme'[call'.h].data.cublasHandle
             IN /\ new # 0
                /\ call'.out = new
                /\ old # 0 => new = old /\ nCublas' = nCublas
                                /\ ~Occurs(call'.drv, "cublasCreate")
                /\ old = 0 => new = nCublas + 1 /\ nCublas' = nCublas + 1
      /\ \A h \in Handles :
           ( feme[h].alloc /\ feme'[h].alloc /\ feme[h].data.cublasHandle # 0 )
             => feme'[h].data.cublasHandle = feme[h].data.cublasHandle
      /\ ( /\ call'.op = "FemeDestroy"
           /\ feme[call'.h].alloc
           /\ feme[call'.h].Destroy = "CeedDestroy_Cuda" )
          => ( Occurs(call'.drv, "cublasDestroy")
                 <=> feme[call'.h].data.cublasHandle # 0 ) ]_vars

\* C14 witness: a later call on a Context that already has its handle returns
\* that handle and creates nothing.
C14_Witness ==
  /\ call.op = "CeedCudaGetCublasHandle"
  /\ call.err = "none"
  /\ call.drv = <<>>
  /\ call.out # 0
  /\ call.out = feme[call.h].data.cublasHandle

\* C15: when a driver call of the device session initialization fails, the
\* initializer returns a non-zero error to its caller at that step: the failed
\* call is the last driver call made, the session records no ordinal and no
\* capability, and the dispatch table stays empty.
C15_DriverFailureReturnsAtThatStep ==
  ( GpuInitInvoked /\ call.err \in {"DeviceQueryError", "DeviceSwitchError"} )
    => /\ call.returned
       /\ call.ierr # 0
       /\ ~aborted
       /\ call.drv # <<>>
       /\ call.err = "DeviceSwitchError" => call.drv[Len(call.drv)] = "SetDevice"
       /\ call.err = "DeviceQueryError" =>
            call.drv[Len(call.drv)] \in {"GetDevice", "GetDeviceProperties"}
       /\ feme[call.h].data.deviceId = 0
       /\ feme[call.h].data.optblocksize = 0
       /\ feme[call.h].ops = {}

\* C18: once the application has installed the return-code handler in a live
\* Context, no error terminates the process: every error of a later call is
\* returned to the caller as a non-zero code.
C18_ReturnHandlerNeverTerminates ==
  ( \E h \in Handles : feme[h].alloc /\ feme[h].Error = "FemeErrorReturn" )
    => /\ ~aborted
       /\ call.err # "none" => call.returned /\ call.ierr # 0

\* C19: every error is reported to a handler.  An error reported with a
\* Context goes to exactly the handler installed in that Context and the call
\* returns what the handler returns: FemeErrorReturn returns the reported code
\* unchanged and the process goes on, FemeErrorAbort ends the process.  An
\* error reported with no Context ends the process.  The handler installed by
\* FemeInit before the initializer runs is FemeErrorAbort.
C19_ReportCallsInstalledHandler ==
  /\ call.err # "none" <=> call.handler # "none"
  /\ call.handler = "NULL" => aborted /\ ~call.returned
  /\ call.handler \in ErrorHandlers =>
       /\ call.handler = feme[call.h].Error
       /\ call.handler = "FemeErrorAbort" => aborted /\ ~call.returned
       /\ call.handler = "FemeErrorReturn" =>
            ~aborted /\ call.returned /\ call.ierr = call.ecode
  /\ InitInvoked =>
       feme[call.h].alloc /\ feme[call.h].Error = "FemeErrorAbort"

\* C19 witness: an error reported to a Context holding FemeErrorReturn came
\* back to the caller as the reported code.
C19_Witness ==
  /\ call.handler = "FemeErrorReturn"
  /\ call.err = "CublasError"
  /\ call.returned
  /\ call.ierr = 1
  /\ ~aborted

\* The last call was a compile that got as far as invoking the compiler.
CompilerInvoked ==
  /\ call.op \in {"CeedCompileCuda", "CeedCompileHip"}
  /\ Occurs(call.drv, "CompileProgram")

\* opt is what the 32-byte buffer holds of -D<name>=<value>: the whole text,
\* whose value part reads back as the value, when it is shorter than the
\* buffer, and otherwise 31 characters that agree with -D<name>=.
IsCallerOption(opt, arg) ==
  LET head == <<"-", "D">> \o arg.name \o <<"=">>
  IN /\ Len(opt) <= OptsLen - 1
     /\ IF Len(opt) < OptsLen - 1
        THEN /\ BeginsWith(opt, head)
             /\ Len(opt) > Len(head)
             /\ atoi(Drop(opt, Len(head))) = arg.val
        ELSE Take(opt, Len(head)) = Take(head, OptsLen - 1)

\* C16: a compile call with n >= 0 caller options hands the compiler exactly
\* n + 4 options: the n caller options first, in the caller's order, each
\* built from -D<name>=<value>, then -DCeedScalar=double, -DCeedInt=int,
\* -default-device and the architecture flag, in that order.
C16_CompilePassesCallerThenStandardOptions ==
  CompilerInvoked =>
    LET n == Len(call.args)
    IN /\ Len(call.opts) = n + OptsExtra
       /\ \A i \in 1..n : IsCallerOption(call.opts[i], call.args[i])
       /\ call.opts[n + 1] = Opt_CeedScalar
       /\ call.opts[n + 2] = Opt_CeedInt
       /\ call.opts[n + 3] = Opt_default_device
       /\ BeginsWith(call.opts[n + 4],
                     IF call.op = "CeedCompileCuda" THEN Arch_compute ELSE Arch_gfx)

\* C16 witness: a compile with two different caller options reached the
\* compiler with six options.
C16_Witness ==
  /\ CompilerInvoked
  /\ Len(call.args) = 2
  /\ call.args[1] # call.args[2]
  /\ Len(call.opts) = 6

\* C17: when the compiler rejects the source, compile queries the log size,
\* allocates the log and fetches it, in that order, reports CompileError with
\* the vendor error string and the log, loads no module, and returns the error
\* to its caller with the process still running.
C17_CompileFailureReturnsCompileError ==
  ( CompilerInvoked /\ call.source = "invalid" /\ call.err = "CompileError" )
    => /\ Before(call.drv, "CompileProgram", "GetProgramLogSize")
       /\ Before(call.drv, "GetProgramLogSize", "malloc(log)")
       /\ Before(call.drv, "malloc(log)", "GetProgramLog")
       /\ call.msg = <<"GetErrorString(result)", "log">>
       /\ call.out = 0
       /\ ~Occurs(call.drv, "ModuleLoadData")
       /\ call.ierr # 0
       /\ call.returned
       /\ ~aborted

\* The step is a launch call that the driver accepted.
LaunchStep ==
  /\ gpu.kernel # "running"
  /\ call'.op \in { RunKernelName(v, c) : v \in RunVariants, c \in BOOLEAN }
  /\ call'.err = "none"

\* C20: a launch returns to its caller with the kernel still running and none
\* of its output written, so a host read that follows with no synchronization
\* in between may see the buffer before the kernel wrote it; a host read made
\* after an explicit synchronization sees the kernel's writes.
C20_LaunchIsAsynchronous ==
  [][ /\ LaunchStep =>
           /\ call'.returned
           /\ gpu'.kernel = "running"
           /\ ~gpu'.written
           /\ ~gpu'.synced
      /\ ( gpu'.read # "none" /\ gpu'.readSynced ) => gpu'.read = "fresh" ]_vars

\* C20 witness: the race: a host read made after the launch returned and with
\* no synchronization saw the buffer before the kernel had written it.
C20_Witness ==
  /\ gpu.read = "stale"
  /\ ~gpu.readSynced
  /\ gpu.kernel \in {"running", "done"}

\* ---------------------------------------------------------------------------
\* The OCCA initializer
\* ---------------------------------------------------------------------------

OccaPrefixes == { S_cpu_occa, S_gpu_occa, S_any_occa }

\* The last call was a FemeInit that invoked the OCCA initializer.
OccaInitInvoked == InitInvoked /\ call.init = "registerBackend"

\* resource is a registered OCCA prefix, or one followed by "/" and a blob.
OccaAcceptable(resource) ==
  \E p \in OccaPrefixes : resource = p \/ BeginsWith(resource, Append(p, "/"))

\* The text after the "/" that follows the OCCA prefix of an acceptable resource.
OccaBlob(resource) ==
  LET p == CHOOSE q \in OccaPrefixes :
             resource = q \/ BeginsWith(resource, Append(q, "/"))
  IN Drop(resource, Len(p) + 1)

\* C21: the OCCA initializer accepts a resource exactly when it is one of the
\* prefixes "/cpu/occa", "/gpu/occa", "/*/occa" or such a prefix followed by
\* "/" and an optional property blob, the text after that "/" becoming the
\* device properties; any other resource is rejected with an error and no
\* backend data is allocated.
C21_OccaAcceptsPrefixOrPrefixSlashBlob ==
  OccaInitInvoked =>
    /\ call.err # "BadResource" <=> OccaAcceptable(call.resource)
    /\ call.err = "BadResource" =>
         /\ call.ierr # 0
         /\ feme[call.h].data = NoData
    /\ ( call.err = "none" /\ OccaAcceptable(call.resource) ) =>
         feme[call.h].data.props = OccaBlob(call.resource)

\* ---------------------------------------------------------------------------
\* The active device
\* ---------------------------------------------------------------------------

\* The step is a FemeInit whose GPU initializer returned success.
GpuInitStep ==
  /\ call'.op = "FemeInit"
  /\ ~feme[call'.h].alloc
  /\ call'.init \in {"CeedInit_Cuda", "CeedInit_Hip"}
  /\ call'.err = "none"

\* C22: after a successful GPU device session initialization for ordinal d
\* the active device of that vendor's runtime is d, the session records d and
\* the max threads per block the driver reports for device d, and the device
\* switch was called exactly when the active device before the call was not d.
C22_InitLeavesRequestedDeviceActive ==
  [][ GpuInitStep =>
        LET d == call'.deviceID
            v == VendorOf(call'.init)
        IN /\ activeDevice'[v] = d
           /\ feme'[call'.h].data.deviceId = d
           /\ feme'[call'.h].data.optblocksize = DeviceProp(d).maxThreadsPerBlock
           /\ Occurs(call'.drv, "SetDevice") <=> activeDevice[v] # d
           /\ \A w \in {"cuda", "hip"} \ {v} : activeDevice'[w] = activeDevice[w]
    ]_vars

\* C22 witness: an initialization for device 2 switched the active device
\* from another one and recorded device 2 and its capability.
C22_Witness ==
  /\ GpuInitInvoked
  /\ call.err = "none"
  /\ call.deviceID = 2
  /\ Occurs(call.drv, "SetDevice")
  /\ activeDevice[VendorOf(call.init)] = 2
  /\ feme[call.h].data.deviceId = 2
  /\ feme[call.h].data.optblocksize = DeviceProp(2).maxThreadsPerBlock

\* The calls made on a live GPU Context after its creation.
SessionOps ==
  { "CeedCudaGetCublasHandle", "CeedCompileCuda", "CeedCompileHip" }
    \cup { RunKernelName(v, c) : v \in RunVariants, c \in BOOLEAN }

\* C23: the active device belongs to the process, not to a Context: a
\* successful initialization for ordinal j makes j the active device and
\* leaves every other Context, with the ordinal it recorded, as it was; and no
\* compile, handle request or launch on a Context changes the active device,
\* so none switches back to the ordinal that Context recorded.
C23_ActiveDeviceIsSharedAndNeverRestored ==
  [][ /\ GpuInitStep =>
           /\ activeDevice'[VendorOf(call'.init)] = call'.deviceID
           /\ \A h \in Handles \ {call'.h} : feme'[h] = feme[h]
      /\ call'.op \in SessionOps =>
           /\ activeDevice' = activeDevice
           /\ ~Occurs(call'.drv, "SetDevice")
           /\ \A h \in Handles :
                feme'[h].data.deviceId = feme[h].data.deviceId ]_vars

\* C23 witness: a compile, handle request or launch was just made on a live
\* CUDA Context whose recorded ordinal is not the active device.
C23_Witness ==
  /\ call.op \in SessionOps
  /\ call.err = "none"
  /\ feme[call.h].alloc
  /\ feme[call.h].data.kind = "cuda"
  /\ feme[call.h].data.deviceId # activeDevice["cuda"]
  /\ \E h \in Handles \ {call.h} :
       /\ feme[h].alloc
       /\ feme[h].data.kind = "cuda"
       /\ feme[h].data.deviceId = activeDevice["cuda"]

\* ---------------------------------------------------------------------------
\* Runtime compilation: the success path and the option buffer
\* ---------------------------------------------------------------------------

\* The number of times a occurs in the trace seq.
Count(seq, a) == Cardinality({ i \in 1..Len(seq) : seq[i] = a })

\* The last call was a compile that returned success.
CompileSucceeded ==
  /\ CompilerInvoked
  /\ call.err = "none"
  /\ call.returned
  /\ call.ierr = 0

\* C24: on the success path of compile the device code is fetched (size
\* query, allocation, fetch), then the program object is destroyed, then the
\* code is loaded into a module, then the code buffer is released, and the
\* module is returned; the buffer is not released before the load and the
\* program object is destroyed exactly once.
C24_CompileSuccessOrder ==
  CompileSucceeded =>
    /\ Before(call.drv, "CompileProgram", "GetCodeSize")
    /\ Before(call.drv, "GetCodeSize", "malloc(ptx)")
    /\ Before(call.drv, "malloc(ptx)", "GetCode")
    /\ Before(call.drv, "GetCode", "DestroyProgram")
    /\ Before(call.drv, "DestroyProgram", "ModuleLoadData")
    /\ Before(call.drv, "ModuleLoadData", "free(ptx)")
    /\ ~Before(call.drv, "free(ptx)", "ModuleLoadData")
    /\ call.drv[Len(call.drv)] = "free(ptx)"
    /\ Count(call.drv, "DestroyProgram") = 1
    /\ Count(call.drv, "free(ptx)") = 1
    /\ Count(call.drv, "ModuleLoadData") = 1
    /\ call.out # 0

\* C24 witness: a compile of a valid source with caller options returned
\* success with a loaded module.
C24_Witness ==
  /\ CompileSucceeded
  /\ call.source = "valid"
  /\ call.out # 0
  /\ Len(call.args) = 1
  /\ Occurs(call.drv, "free(ptx)")

\* The text -D<name>=<value> that the format of a caller option produces.
FullOptionText(arg) == <<"-", "D">> \o arg.name \o <<"=">> \o FormatInt(arg.val)

\* The error kinds that the steps of compile report.
CompileErrorKinds ==
  { "none", "JitError", "DeviceQueryError", "AllocError", "CompileError",
    "ModuleLoadError" }

\* C25: each caller option -D<name>=<value> is built in a 32-byte buffer: a
\* text of at most 31 characters reaches the compiler unchanged, a longer one
\* reaches it as exactly its first 31 characters, and in neither case does the
\* length change the option count or make compile report an error.
C25_CallerOptionTruncatedTo31 ==
  CompilerInvoked =>
    LET n == Len(call.args)
    IN /\ Len(call.opts) = n + OptsExtra
       /\ \A i \in 1..n :
            LET full == FullOptionText(call.args[i])
            IN IF Len(full) <= 31
               THEN call.opts[i] = full
               ELSE call.opts[i] = SubSeq(full, 1, 31)
       /\ call.err \in CompileErrorKinds
       /\ (call.err = "CompileError" => call.source = "invalid")
       /\ (call.source = "valid" /\ call.args \in OptionLists => call.err = "none")

\* C25 witness: a successful compile whose first option has exactly 31
\* characters and was passed whole, and whose second option is longer and
\* was cut to 31 characters.
C25_Witness ==
  /\ CompileSucceeded
  /\ Len(call.args) = 2
  /\ Len(FullOptionText(call.args[1])) = 31
  /\ call.opts[1] = FullOptionText(call.args[1])
  /\ Len(FullOptionText(call.args[2])) > 31
  /\ Len(call.opts[2]) = 31
  /\ call.opts[2] # FullOptionText(call.args[2])
  /\ Len(call.opts) = 6

\* ---------------------------------------------------------------------------
\* The default mode of the OCCA backend
\* ---------------------------------------------------------------------------

\* The resource names the GPU or the any-device prefix.
OccaGpuAllowed(resource) ==
  BeginsWith(resource, S_gpu_occa) \/ BeginsWith(resource, S_any_occa)

\* The resource names the CPU or the any-device prefix.
OccaCpuAllowed(resource) ==
  BeginsWith(resource, S_cpu_occa) \/ BeginsWith(resource, S_any_occa)

\* The GPU modes in the order of their priority.
GpuModePriority == <<"CUDA", "HIP", "Metal", "OpenCL">>

\* m is the first enabled GPU mode.
FirstEnabledGpuMode(m) ==
  \E i \in 1..Len(GpuModePriority) :
    /\ GpuModePriority[i] = m
    /\ m \in occaModes
    /\ \A j \in 1..(i - 1) : GpuModePriority[j] \notin occaModes

NoGpuModeEnabled == \A i \in 1..Len(GpuModePriority) : GpuModePriority[i] \notin occaModes

\* The last call was a FemeInit whose OCCA initializer accepted the resource.
OccaAccepted == OccaInitInvoked /\ call.err # "BadResource"

\* The initializer of the last call got as far as allocating the backend data.
OccaDataAllocated == call.err \in {"none", "OccaException"}

\* C26: an accepted OCCA resource without a "mode" property gets its mode by
\* fixed priority: when it allows GPU, the first enabled of CUDA, HIP, Metal,
\* OpenCL; otherwise, when it allows CPU, OpenMP when enabled and else Serial.
\* Initialization fails for lack of a mode, allocating no backend data,
\* exactly when the resource is GPU-only and no GPU mode is enabled; a
\* resource that supplies its own mode keeps it.
C26_OccaDefaultModeByPriority ==
  OccaAccepted =>
    LET resource == call.resource
        data == feme[call.h].data
    IN IF Find(resource, K_mode)
       THEN /\ call.err # "NoOccaMode"
            /\ OccaDataAllocated => data.mode = "props" /\ Find(data.props, K_mode)
       ELSE /\ call.err = "NoOccaMode" <=>
                 ( OccaGpuAllowed(resource) /\ ~OccaCpuAllowed(resource)
                   /\ NoGpuModeEnabled )
            /\ call.err = "NoOccaMode" => call.ierr # 0 /\ data = NoData
            /\ OccaCpuAllowed(resource) => call.err # "NoOccaMode"
            /\ OccaDataAllocated =>
                 IF OccaGpuAllowed(resource) /\ ~NoGpuModeEnabled
                 THEN FirstEnabledGpuMode(data.mode)
                 ELSE /\ OccaCpuAllowed(resource)
                      /\ data.mode = IF "OpenMP" \in occaModes THEN "OpenMP"
                                     ELSE "Serial"

\* C26 witness: "/*/occa" was initialized with HIP, OpenCL and OpenMP enabled
\* and CUDA disabled, and the session runs in HIP mode.
C26_Witness ==
  /\ OccaAccepted
  /\ call.resource = S_any_occa
  /\ call.err = "none"
  /\ "CUDA" \notin occaModes
  /\ {"HIP", "OpenCL", "OpenMP"} \subseteq occaModes
  /\ feme[call.h].data.mode = "HIP"

\* ---------------------------------------------------------------------------
\* Priorities
\* ---------------------------------------------------------------------------

\* The length of the common leading substring of slot i with the resource.
SlotMatchLen(b, i, resource) == CommonLen(b[i].prefix, resource, 0)

\* C27: resolution never consults a registration's priority.  A registration
\* stores its prefix and initializer at the end of the registry whatever
\* priority it passes, so registries built from the same prefixes and
\* initializers in the same order are equal; and FemeInit selects the first
\* slot among those of greatest common length with the resource, which the
\* stored prefixes and their order decide.
C27_ResolutionIgnoresPriority ==
  [][ /\ ( call'.op = "FemeRegister" /\ call'.err = "none" ) =>
           backends' = Append(backends,
                              [prefix |-> call'.resource, init |-> call'.init])
      /\ ( call'.op = "FemeInit" /\ call'.matchidx # 0 ) =>
           LET k == call'.matchidx
           IN /\ backends' = backends
              /\ k \in 1..Len(backends)
              /\ \A i \in 1..Len(backends) :
                   /\ SlotMatchLen(backends, i, call'.resource)
                        <= SlotMatchLen(backends, k, call'.resource)
                   /\ SlotMatchLen(backends, i, call'.resource)
                        = SlotMatchLen(backends, k, call'.resource) => k <= i
    ]_vars

\* C27 witness: "/gpu/hip/ref" (priority 20) was registered before
\* "/gpu/cuda/ref" (priority 40), and a resource that both match equally long
\* resolved to the entry of lower priority.
C27_Witness ==
  /\ call.op = "FemeInit"
  /\ call.matchidx # 0
  /\ \E i \in 1..Len(backends) :
       /\ i > call.matchidx
       /\ SlotMatchLen(backends, i, call.resource)
            = SlotMatchLen(backends, call.matchidx, call.resource)
       /\ RegisteredPriority(backends[i].prefix)
            > RegisteredPriority(backends[call.matchidx].prefix)

\* ---------------------------------------------------------------------------
\* Failures of the initializer and of Destroy
\* ---------------------------------------------------------------------------

\* The last call was a FemeInit whose initializer raised an error.
InitializerFailed == InitInvoked /\ call.err # "none"

\* C28: when the initializer selected by FemeInit fails, FemeInit returns the
\* initializer's error code unchanged and does not free the Context: the
\* caller's handle points at an allocated Context that holds the terminating
\* handler.
C28_InitFailureReturnsCodeKeepsContext ==
  InitializerFailed =>
    /\ call.returned
    /\ ~aborted
    /\ call.ierr = call.ecode
    /\ call.ierr # 0
    /\ feme[call.h].alloc
    /\ feme[call.h].Error = "FemeErrorAbort"

\* The last call was a FemeDestroy whose backend Destroy raised an error.
DestroyFailed == call.op = "FemeDestroy" /\ call.err # "none"

\* C29: when the backend's Destroy fails during FemeDestroy, the error is
\* returned to the caller, the Context is not freed and the caller's handle
\* stays non-null; in CeedDestroy_Cuda a failure to destroy the lazily created
\* handle returns the error without freeing the session data.
C29_DestroyFailureReturnsKeepsContext ==
  DestroyFailed =>
    /\ call.returned
    /\ ~aborted
    /\ call.ierr # 0
    /\ feme[call.h].alloc
    /\ ~Occurs(call.drv, "free(feme)")
    /\ Occurs(call.drv, "cublasDestroy") =>
         /\ ~Occurs(call.drv, "free(data)")
         /\ feme[call.h].data.kind = "cuda"
         /\ feme[call.h].data.cublasHandle # 0

\* The trace holds a step of the backend's Destroy operation.
BackendDestroyInvoked(drv) == Occurs(drv, "cublasDestroy") \/ Occurs(drv, "free(data)")

\* C30: FemeDestroy is idempotent on a handle.  Called on a null handle it
\* returns 0 and changes nothing; a successful destroy of a live Context
\* returns 0 and sets the caller's handle to null, so every further destroy
\* on that handle is such a no-op; and the backend's Destroy is invoked only
\* on a live Context that registered one, so that after its success it is not
\* invoked for that Context again.
C30_DestroyIsIdempotent ==
  [][ call'.op = "FemeDestroy" =>
        LET h == call'.h
        IN /\ ~feme[h].alloc =>
                /\ call'.ierr = 0
                /\ call'.err = "none"
                /\ call'.returned
                /\ call'.drv = <<>>
                /\ UNCHANGED <<backends, feme, activeDevice, occaModes, aborted,
                               nCublas, gpu>>
           /\ ( feme[h].alloc /\ call'.err = "none" ) =>
                /\ call'.ierr = 0
                /\ feme'[h] = NullCtx
                /\ Occurs(call'.drv, "free(feme)")
                /\ \A g \in Handles \ {h} : feme'[g] = feme[g]
           /\ BackendDestroyInvoked(call'.drv) =>
                /\ feme[h].alloc
                /\ feme[h].Destroy # "NULL"
           /\ ( BackendDestroyInvoked(call'.drv) /\ call'.err = "none" ) =>
                ~feme'[h].alloc
    ]_vars

\* C30 witness: a Context that had created a cuBLAS handle was destroyed, no
\* Context is live, and the last call was a destroy on a null handle that
\* returned 0 and made no driver or allocator call.
C30_Witness ==
  /\ call.op = "FemeDestroy"
  /\ call.ierr = 0
  /\ call.drv = <<>>
  /\ nCublas > 0
  /\ \A h \in Handles : ~feme[h].alloc

\* ---------------------------------------------------------------------------
\* Transient resources of compile
\* ---------------------------------------------------------------------------

\* The last call was a compile that returned to its caller.
CompileReturned ==
  /\ call.op \in {"CeedCompileCuda", "CeedCompileHip"}
  /\ call.returned

\* Step a of the last call was made and succeeded: the trace ends with the
\* step that failed, except when the error is the compiler's rejection of the
\* source, which is reported after the log was fetched.
StepSucceeded(a) ==
  /\ Occurs(call.drv, a)
  /\ call.drv[Len(call.drv)] = a => call.err \in {"none", "CompileError"}

\* C31: whenever compile returns, on success or on any failure, every
\* transient resource it created has been released: the program object is
\* destroyed and the log buffer and the device code buffer are freed; only a
\* successfully loaded module outlives the call.
C31_CompileReleasesTransients ==
  CompileReturned =>
    /\ StepSucceeded("CreateProgram") =>
         /\ Count(call.drv, "DestroyProgram") = 1
         /\ StepSucceeded("DestroyProgram")
    /\ StepSucceeded("malloc(log)") => Occurs(call.drv, "free(log)")
    /\ StepSucceeded("malloc(ptx)") => Occurs(call.drv, "free(ptx)")
    /\ call.out # 0 => call.err = "none"


====
